---- MODULE Spec2Model ----
(***************************************************************************)
(* A model of re-date.py: the conversion of a Torque Pro CSV log.          *)
(*                                                                         *)
(* Python strings are sequences of one-character strings, so that lower(), *)
(* the `in` test, str.split and strptime are computed character by         *)
(* character.  A CSV row is a sequence of such strings; a file is the      *)
(* sequence of rows csv.reader yields from it (csv.writer receives rows).  *)
(* A call's outcome is a record [exc, val]: exc = NoExc and the returned   *)
(* value, or the name of the exception raised.                             *)
(***************************************************************************)
EXTENDS Integers, Sequences, FiniteSets, TLC

(***************************************************************************)
(* Bounds of the model.                                                    *)
(***************************************************************************)
MaxRows == 3      \* data rows of an input file
MaxRowLen == 3    \* fields of a row handed to build_new_row directly
MaxTokens == 4    \* tokens of a string handed to build_new_datetime_format1

(***************************************************************************)
(* Python values.                                                          *)
(***************************************************************************)
\* None, where an int is expected (no int of the model is negative)
None == -1

NoExc == "NoExc"

Ok(v) == [exc |-> NoExc, val |-> v]

Raise(e) == [exc |-> e, val |-> <<>>]

(***************************************************************************)
(* Characters.                                                             *)
(***************************************************************************)
UpperChars == <<"A","B","C","D","E","F","G","H","I","J","K","L","M",
                "N","O","P","Q","R","S","T","U","V","W","X","Y","Z">>

LowerChars == <<"a","b","c","d","e","f","g","h","i","j","k","l","m",
                "n","o","p","q","r","s","t","u","v","w","x","y","z">>

DigitChars == <<"0","1","2","3","4","5","6","7","8","9">>

IsDigit(c) == \E i \in 1..10 : DigitChars[i] = c

DigitVal(c) == (CHOOSE i \in 1..10 : DigitChars[i] = c) - 1

\* str.lower, one character
lower_char(c) ==
    IF \E i \in 1..26 : UpperChars[i] = c
    THEN LowerChars[CHOOSE i \in 1..26 : UpperChars[i] = c]
    ELSE c

\* str.lower
lower(s) == [i \in 1..Len(s) |-> lower_char(s[i])]

\* `sub in s` on strings
str_contains(sub, s) ==
    \E k \in 0..(Len(s) - Len(sub)) : SubSeq(s, k + 1, k + Len(sub)) = sub

\* str.split(sep) for a one-character sep: cuts at EVERY occurrence of sep
RECURSIVE split(_, _)
split(s, sep) ==
    IF \A i \in 1..Len(s) : s[i] # sep
    THEN <<s>>
    ELSE LET k == CHOOSE i \in 1..Len(s) :
                     s[i] = sep /\ \A j \in 1..(i - 1) : s[j] # sep
         IN  <<SubSeq(s, 1, k - 1)>> \o split(SubSeq(s, k + 1, Len(s)), sep)

(***************************************************************************)
(* is_substring_ignore_case, find_index_of_datetime_column                 *)
(***************************************************************************)
is_substring_ignore_case(substring, string) ==
    str_contains(lower(substring), lower(string))

\* the loop of find_index_of_datetime_column from position index (0-based)
RECURSIVE find_index_from(_, _)
find_index_from(column_list, index) ==
    IF index >= Len(column_list) THEN None
    ELSE IF is_substring_ignore_case(<<"t","i","m","e">>, column_list[index + 1])
         THEN index
         ELSE find_index_from(column_list, index + 1)

find_index_of_datetime_column(column_list) == find_index_from(column_list, 0)

(***************************************************************************)
(* datetime.strptime(old_date, '%d-%b-%Y').strftime('%Y-%m-%d')            *)
(* (month names of the C locale; the regular expression strptime builds    *)
(* is (3[0-1]|[1-2]\d|0[1-9]|[1-9]| [1-9])-(jan|...|dec)-(\d\d\d\d),       *)
(* letters matched ignoring case, the whole string consumed)               *)
(***************************************************************************)
MonthNames == << <<"j","a","n">>, <<"f","e","b">>, <<"m","a","r">>,
                 <<"a","p","r">>, <<"m","a","y">>, <<"j","u","n">>,
                 <<"j","u","l">>, <<"a","u","g">>, <<"s","e","p">>,
                 <<"o","c","t">>, <<"n","o","v">>, <<"d","e","c">> >>

IsLeap(y) == (y % 4 = 0) /\ ((y % 100 # 0) \/ (y % 400 = 0))

DaysInMonth(y, m) ==
    IF m = 2 THEN (IF IsLeap(y) THEN 29 ELSE 28)
    ELSE IF m \in {4, 6, 9, 11} THEN 30 ELSE 31

\* the text matched by the %d directive, as a number, or None
parse_day(d) ==
    IF Len(d) = 2 /\ IsDigit(d[1]) /\ IsDigit(d[2])
    THEN LET n == 10 * DigitVal(d[1]) + DigitVal(d[2])
         IN  IF n >= 1 /\ n <= 31 THEN n ELSE None
    ELSE IF Len(d) = 2 /\ d[1] = " " /\ IsDigit(d[2]) /\ d[2] # "0"
         THEN DigitVal(d[2])
    ELSE IF Len(d) = 1 /\ IsDigit(d[1]) /\ d[1] # "0"
         THEN DigitVal(d[1])
    ELSE None

\* the text matched by the %b directive, as a month number, or None
parse_month(b) ==
    IF \E m \in 1..12 : MonthNames[m] = lower(b)
    THEN CHOOSE m \in 1..12 : MonthNames[m] = lower(b)
    ELSE None

\* the text matched by the %Y directive, as a number, or None
parse_year(y) ==
    IF Len(y) = 4 /\ \A i \in 1..4 : IsDigit(y[i])
    THEN 1000 * DigitVal(y[1]) + 100 * DigitVal(y[2])
         + 10 * DigitVal(y[3]) + DigitVal(y[4])
    ELSE None

TwoDigits(n) == <<DigitChars[(n \div 10) + 1], DigitChars[(n % 10) + 1]>>

\* %Y for a year of four digits; below 1000 the C library decides whether
\* the year is padded, and no date the model draws is that early
FourDigits(n) == TwoDigits(n \div 100) \o TwoDigits(n % 100)

build_new_date_format1(old_date) ==
    LET parts == split(old_date, "-")
    IN  IF Len(parts) # 3 THEN Raise("ValueError: time data does not match format")
        ELSE LET d == parse_day(parts[1])
                 m == parse_month(parts[2])
                 y == parse_year(parts[3])
             IN  IF d = None \/ m = None \/ y = None
                 THEN Raise("ValueError: time data does not match format")
                 ELSE IF y < 1 \/ d > DaysInMonth(y, m)
                 THEN Raise("ValueError: day or year is out of range")
                 ELSE Ok(FourDigits(y) \o <<"-">> \o TwoDigits(m)
                         \o <<"-">> \o TwoDigits(d))

(***************************************************************************)
(* build_new_time_format1, build_new_datetime_format1                      *)
(***************************************************************************)
build_new_time_format1(old_time) == split(old_time, ".")[1]

\* a variant that cuts at the first space only (str.split(' ', 1))
build_new_datetime_format1_maxsplit(old_datetime, discard_date) ==
    IF \A i \in 1..Len(old_datetime) : old_datetime[i] # " "
    THEN Raise("ValueError: not enough values to unpack")
    ELSE LET k == CHOOSE i \in 1..Len(old_datetime) :
                     old_datetime[i] = " "
                     /\ \A j \in 1..(i - 1) : old_datetime[j] # " "
             date == SubSeq(old_datetime, 1, k - 1)
             time == SubSeq(old_datetime, k + 1, Len(old_datetime))
             new_date == IF discard_date THEN Ok(<<>>)
                         ELSE build_new_date_format1(date)
             new_time == build_new_time_format1(time)
         IN  IF new_date.exc # NoExc THEN new_date
             ELSE IF ~discard_date
                  THEN Ok(new_date.val \o <<" ">> \o new_time)
                  ELSE Ok(new_time)

build_new_datetime_format1(old_datetime, discard_date) ==
    LET parts == split(old_datetime, " ")
    IN  IF Len(parts) < 2
        THEN Raise("ValueError: not enough values to unpack")
        ELSE IF Len(parts) > 2
        THEN Raise("ValueError: too many values to unpack")
        ELSE LET date == parts[1]
                 time == parts[2]
                 new_date == IF discard_date THEN Ok(<<>>)
                             ELSE build_new_date_format1(date)
                 new_time == build_new_time_format1(time)
             IN  IF new_date.exc # NoExc THEN new_date
                 ELSE IF ~discard_date
                      THEN Ok(new_date.val \o <<" ">> \o new_time)
                      ELSE Ok(new_time)

(***************************************************************************)
(* build_new_row                                                           *)
(***************************************************************************)
\* a variant of the loop whose position counter starts one off
RECURSIVE build_new_row_loop_off_by_one(_, _, _, _, _)
build_new_row_loop_off_by_one(row, datetime_column_index, discard_date, index, result_row) ==
    IF index >= Len(row) THEN Ok(result_row)
    ELSE IF index + 1 = datetime_column_index
         THEN LET r == build_new_datetime_format1(row[index + 1], discard_date)
              IN  IF r.exc # NoExc THEN r
                  ELSE build_new_row_loop_off_by_one(
                           row, datetime_column_index, discard_date,
                           index + 1, Append(result_row, r.val))
         ELSE build_new_row_loop_off_by_one(
                  row, datetime_column_index, discard_date,
                  index + 1, Append(result_row, row[index + 1]))

\* the loop of build_new_row from position index, result_row built so far
RECURSIVE build_new_row_loop(_, _, _, _, _)
build_new_row_loop(row, datetime_column_index, discard_date, index, result_row) ==
    IF index >= Len(row) THEN Ok(result_row)
    ELSE IF index = datetime_column_index
         THEN LET r == build_new_datetime_format1(row[index + 1], discard_date)
              IN  IF r.exc # NoExc THEN r
                  ELSE build_new_row_loop(row, datetime_column_index, discard_date,
                                          index + 1, Append(result_row, r.val))
         ELSE build_new_row_loop(row, datetime_column_index, discard_date,
                                 index + 1, Append(result_row, row[index + 1]))

\* a variant that subscripts the row (row[datetime_column_index]) instead of
\* comparing positions while it iterates
build_new_row_subscript(row, datetime_column_index, discard_date) ==
    IF datetime_column_index = None
    THEN Raise("AssertionError")
    ELSE IF datetime_column_index >= Len(row)
    THEN Raise("IndexError")
    ELSE build_new_row_loop(row, datetime_column_index, discard_date, 0, <<>>)

build_new_row(row, datetime_column_index, discard_date) ==
    IF datetime_column_index = None
    THEN Raise("AssertionError")
    ELSE build_new_row_loop(row, datetime_column_index, discard_date, 0, <<>>)

(***************************************************************************)
(* The command line: int(sys.argv[3]) and bool(sys.argv[4])                *)
(***************************************************************************)
\* int(s) for the strings the model passes: decimal digits, else ValueError
RECURSIVE digits_value(_)
digits_value(s) ==
    IF s = <<>> THEN 0
    ELSE 10 * digits_value(SubSeq(s, 1, Len(s) - 1)) + DigitVal(s[Len(s)])

int_(s) ==
    IF s # <<>> /\ \A i \in 1..Len(s) : IsDigit(s[i])
    THEN Ok(digits_value(s))
    ELSE Raise("ValueError: invalid literal for int()")

\* a variant that reads the words: only "False" and the empty string are false
bool_literal(s) == Len(s) > 0 /\ s # <<"F","a","l","s","e">>

\* bool(s) on a string: its truth value is that it is not empty
bool_(s) == Len(s) > 0

(***************************************************************************)
(* The inputs the model draws from.                                        *)
(***************************************************************************)
T_date == <<"2","2","-","F","e","b","-","2","0","2","1">>

T_baddate == <<"3","0","-","F","e","b","-","2","0","2","1">>

T_time == <<"1","8",":","1","5",":","4","7">>

T_frac == <<".","9","2","6">>

T_sp == <<" ">>

\* 22-Feb-2021 18:15:47.926
TS_full == T_date \o T_sp \o T_time \o T_frac

\* 22-Feb-2021  18:15:47 (two spaces)
TS_two == T_date \o T_sp \o T_sp \o T_time

\* 30-Feb-2021 18:15:47 (no such day)
TS_baddate == T_baddate \o T_sp \o T_time

F_50 == <<"5","0">>

H_Time == <<"T","i","m","e">>

H_Speed == <<"S","p","e","e","d">>

H_DevTime == <<"D","e","v","i","c","e"," ","T","I","M","E">>

H_RPM == <<"R","P","M">>

S_False == <<"F","a","l","s","e">>

SeqsUpTo(S, n) == UNION {[1..k -> S] : k \in 0..n}

Headers == {<<H_Time, H_Speed>>, <<H_Speed, H_DevTime>>, <<H_Speed, H_RPM>>}

DataRows == {<<TS_full, F_50>>, <<F_50, TS_full>>, <<F_50>>, <<TS_baddate, F_50>>}

\* what csv.reader yields from the input file: nothing (an empty file), or a
\* header row and up to MaxRows data rows
InputFiles ==
    {<<>>} \cup {<<h>> \o rows : h \in Headers, rows \in SeqsUpTo(DataRows, MaxRows)}

StrideArgs == {<<"0">>, <<"1">>, <<"2">>, <<"3">>, <<"x">>}

FlagArgs == {<<>>, S_False}

\* sys.argv[1:]
ArgLists ==
    {<<>>, << <<"i">> >>, << <<"i">>, <<"o">> >>}
    \cup {<< <<"i">>, <<"o">>, n >> : n \in StrideArgs}
    \cup {<< <<"i">>, <<"o">>, n, f >> : n \in StrideArgs, f \in FlagArgs}
    \cup {<< <<"i">>, <<"o">>, <<"2">>, S_False, <<"x">> >>}

Fields == {TS_full, TS_two, TS_baddate, F_50}

Tokens == {T_date, T_baddate, T_time, T_frac, T_sp}

RECURSIVE concat(_)
concat(ts) == IF ts = <<>> THEN <<>> ELSE Head(ts) \o concat(Tail(ts))

(***************************************************************************)
(* State.                                                                  *)
(***************************************************************************)
VARIABLES
    argv,                   \* sys.argv[1:]
    input_exists,           \* open(input_filename, 'r') succeeds
    output_writable,        \* open(output_filename, 'w') succeeds
    input_file,             \* the rows csv.reader yields
    output,                 \* the rows handed to csv_writer.writerow, in order
    pc,                     \* position in the program
    skip_every_nth_row,     \* parameters of process_torque_csv_log
    discard_date,
    csv_input_file,         \* "unopened", "open", "closed"
    csv_output_file,
    column_headers,
    datetime_column_index,
    index,                  \* rows the data loop has consumed
    emitted,                \* positions whose row the data loop wrote
    exc,                    \* the exception raised, NoExc if none
    result,                 \* "unset", "True", "False": the return value
    call                    \* a direct call of one of the pure functions

vars == <<argv, input_exists, output_writable, input_file, output, pc,
          skip_every_nth_row, discard_date, csv_input_file, csv_output_file,
          column_headers, datetime_column_index, index, emitted, exc, result,
          call>>

env == <<argv, input_exists, output_writable, input_file>>

locals == <<column_headers, datetime_column_index, index, emitted>>

params == <<skip_every_nth_row, discard_date>>

handles == <<csv_input_file, csv_output_file>>

NoCall == [fn |-> "none", row |-> <<>>, idx |-> 0, s |-> <<>>, dd |-> TRUE,
           done |-> FALSE, ret |-> Ok(<<>>)]

\* the data rows of the input file, in order (position 0 is the first)
data_rows == IF input_file = <<>> THEN <<>> ELSE Tail(input_file)

ProgramStart ==
    /\ output = <<>>
    /\ skip_every_nth_row = 0
    /\ discard_date = TRUE
    /\ csv_input_file = "unopened"
    /\ csv_output_file = "unopened"
    /\ column_headers = <<>>
    /\ datetime_column_index = None
    /\ index = 0
    /\ emitted = {}
    /\ exc = NoExc
    /\ result = "unset"

Init ==
    /\ argv \in ArgLists
    /\ input_exists \in BOOLEAN
    /\ output_writable \in BOOLEAN
    /\ input_file \in InputFiles
    /\ pc = "main"
    /\ ProgramStart
    /\ call = NoCall

(***************************************************************************)
(* __main__                                                                *)
(***************************************************************************)
Main ==
    /\ pc = "main"
    /\ LET n == Len(argv)
           stride == IF n >= 3 THEN int_(argv[3]) ELSE Ok(0)
       IN  IF n < 2 \/ n > 4
           THEN \* the usage text and exit(), or no branch of the elif chain
                /\ pc' = "exit"
                /\ UNCHANGED <<exc, params>>
           ELSE IF stride.exc # NoExc
           THEN \* int() raises outside any try
                /\ pc' = "crashed"
                /\ exc' = stride.exc
                /\ UNCHANGED params
           ELSE /\ pc' = "open_in"
                /\ skip_every_nth_row' = stride.val
                /\ discard_date' = (IF n = 4 THEN bool_(argv[4]) ELSE TRUE)
                /\ UNCHANGED exc
    /\ UNCHANGED <<env, output, handles, locals, result, call>>

(***************************************************************************)
(* process_torque_csv_log                                                  *)
(***************************************************************************)
OpenInput ==
    /\ pc = "open_in"
    /\ IF input_exists
       THEN /\ csv_input_file' = "open"
            /\ pc' = "open_out"
            /\ UNCHANGED exc
       ELSE /\ exc' = "FileNotFoundError"
            /\ pc' = "except"
            /\ UNCHANGED csv_input_file
    /\ UNCHANGED <<env, output, params, csv_output_file, locals, result, call>>

OpenOutput ==
    /\ pc = "open_out"
    /\ IF output_writable
       THEN /\ csv_output_file' = "open"
            /\ output' = <<>>
            /\ pc' = "header"
            /\ UNCHANGED exc
       ELSE /\ exc' = "PermissionError"
            /\ pc' = "except"
            /\ UNCHANGED <<csv_output_file, output>>
    /\ UNCHANGED <<env, params, csv_input_file, locals, result, call>>

\* a variant that reads the header and does not write it
ReadHeader_not_written ==
    /\ pc = "header"
    /\ IF input_file = <<>>
       THEN /\ exc' = "StopIteration"
            /\ pc' = "except"
            /\ UNCHANGED <<output, locals>>
       ELSE /\ column_headers' = input_file[1]
            /\ datetime_column_index' = find_index_of_datetime_column(input_file[1])
            /\ index' = 0
            /\ pc' = "loop"
            /\ UNCHANGED <<output, exc, emitted>>
    /\ UNCHANGED <<env, params, handles, result, call>>

ReadHeader ==
    /\ pc = "header"
    /\ IF input_file = <<>>
       THEN \* csv_reader.__next__() on an exhausted reader
            /\ exc' = "StopIteration"
            /\ pc' = "except"
            /\ UNCHANGED <<output, locals>>
       ELSE /\ column_headers' = input_file[1]
            /\ output' = Append(output, input_file[1])
            /\ datetime_column_index' = find_index_of_datetime_column(input_file[1])
            /\ index' = 0
            /\ pc' = "loop"
            /\ UNCHANGED <<exc, emitted>>
    /\ UNCHANGED <<env, params, handles, result, call>>

\* a variant that keeps every nth row instead of dropping it
keep_row_multiples(stride, i) == stride > 1 /\ i % stride = 0

\* the condition of the data loop under which a row is transformed and written
keep_row(stride, i) == stride > 1 /\ i % stride # 0

\* a variant that writes the untransformed row when the transformation raises
ProcessRow_writes_failed_row ==
    /\ pc = "loop"
    /\ index < Len(data_rows)
    /\ LET row == data_rows[index + 1]
           r == build_new_row(row, datetime_column_index, discard_date)
       IN  IF keep_row(skip_every_nth_row, index)
           THEN IF r.exc # NoExc
                THEN /\ exc' = r.exc
                     /\ pc' = "except"
                     /\ output' = Append(output, row)
                     /\ UNCHANGED <<index, emitted>>
                ELSE /\ output' = Append(output, r.val)
                     /\ emitted' = emitted \cup {index}
                     /\ index' = index + 1
                     /\ UNCHANGED <<exc, pc>>
           ELSE /\ index' = index + 1
                /\ UNCHANGED <<output, emitted, exc, pc>>
    /\ UNCHANGED <<env, params, handles, column_headers, datetime_column_index,
                   result, call>>

\* one iteration of `for row in csv_reader`
ProcessRow ==
    /\ pc = "loop"
    /\ index < Len(data_rows)
    /\ LET row == data_rows[index + 1]
           r == build_new_row(row, datetime_column_index, discard_date)
       IN  IF keep_row(skip_every_nth_row, index)
           THEN IF r.exc # NoExc
                THEN /\ exc' = r.exc
                     /\ pc' = "except"
                     /\ UNCHANGED <<output, index, emitted>>
                ELSE /\ output' = Append(output, r.val)
                     /\ emitted' = emitted \cup {index}
                     /\ index' = index + 1
                     /\ UNCHANGED <<exc, pc>>
           ELSE /\ index' = index + 1
                /\ UNCHANGED <<output, emitted, exc, pc>>
    /\ UNCHANGED <<env, params, handles, column_headers, datetime_column_index,
                   result, call>>

\* the reader is exhausted: both close() calls and `return True`
CloseAndReturn ==
    /\ pc = "loop"
    /\ index = Len(data_rows)
    /\ csv_input_file' = "closed"
    /\ csv_output_file' = "closed"
    /\ result' = "True"
    /\ pc' = "returned"
    /\ UNCHANGED <<env, output, params, locals, exc, call>>

\* except BaseException: print and `return False`; no close() on this path
Except ==
    /\ pc = "except"
    /\ result' = "False"
    /\ pc' = "returned"
    /\ UNCHANGED <<env, output, params, handles, locals, exc, call>>

\* after the return the file objects are unreferenced: the runtime closes
\* them when it collects them, at a time the program does not choose
Finalize ==
    /\ pc = "returned"
    /\ csv_input_file = "open" \/ csv_output_file = "open"
    /\ csv_input_file' = (IF csv_input_file = "open" THEN "closed" ELSE csv_input_file)
    /\ csv_output_file' = (IF csv_output_file = "open" THEN "closed" ELSE csv_output_file)
    /\ UNCHANGED <<env, output, pc, params, locals, exc, result, call>>

Next ==
    \/ Main
    \/ OpenInput
    \/ OpenOutput
    \/ ReadHeader
    \/ ProcessRow
    \/ CloseAndReturn
    \/ Except
    \/ Finalize

Spec == Init /\ [][Next]_vars

(***************************************************************************)
(* Direct calls of build_new_row and of build_new_datetime_format1, on     *)
(* arguments drawn from bounded sets.                                      *)
(***************************************************************************)
Idle ==
    /\ argv = <<>>
    /\ input_exists = FALSE
    /\ output_writable = FALSE
    /\ input_file = <<>>
    /\ pc = "idle"
    /\ ProgramStart

InitRow ==
    /\ Idle
    /\ \E row \in SeqsUpTo(Fields, MaxRowLen),
          idx \in {None} \cup 0..MaxRowLen,
          dd \in BOOLEAN :
         call = [NoCall EXCEPT !.fn = "build_new_row", !.row = row,
                               !.idx = idx, !.dd = dd]

CallBuildNewRow ==
    /\ call.fn = "build_new_row"
    /\ ~call.done
    /\ call' = [call EXCEPT !.done = TRUE,
                            !.ret = build_new_row(call.row, call.idx, call.dd)]
    /\ UNCHANGED <<env, output, pc, params, handles, locals, exc, result>>

NextRow == CallBuildNewRow

SpecRow == InitRow /\ [][NextRow]_vars

InitDatetime ==
    /\ Idle
    /\ \E ts \in SeqsUpTo(Tokens, MaxTokens), dd \in BOOLEAN :
         call = [NoCall EXCEPT !.fn = "build_new_datetime_format1",
                               !.s = concat(ts), !.dd = dd]

CallBuildNewDatetime ==
    /\ call.fn = "build_new_datetime_format1"
    /\ ~call.done
    /\ call' = [call EXCEPT !.done = TRUE,
                            !.ret = build_new_datetime_format1(call.s, call.dd)]
    /\ UNCHANGED <<env, output, pc, params, handles, locals, exc, result>>

NextDatetime == CallBuildNewDatetime

SpecDatetime == InitDatetime /\ [][NextDatetime]_vars

(***************************************************************************)
(* Vocabulary of the properties.                                           *)
(***************************************************************************)
HasHeader == input_file # <<>>

BothOpened == csv_input_file # "unopened" /\ csv_output_file # "unopened"

\* the conversion opened both files, read a header and has returned
Converted == pc = "returned" /\ BothOpened /\ HasHeader

Positions == 0..(Len(data_rows) - 1)

\* the column find_index_of_datetime_column detects in the input's header
HeaderIndex == find_index_of_datetime_column(input_file[1])

Transformed(i) == build_new_row(data_rows[i + 1], HeaderIndex, discard_date)

CountOf(s, c) == Cardinality({i \in 1..Len(s) : s[i] = c})

FirstOf(s, c) == CHOOSE i \in 1..Len(s) : s[i] = c /\ \A j \in 1..(i - 1) : s[j] # c

\* the text before the first c, all of s when it holds no c
Before(s, c) == IF CountOf(s, c) = 0 THEN s ELSE SubSeq(s, 1, FirstOf(s, c) - 1)

\* the text after the first c
After(s, c) == SubSeq(s, FirstOf(s, c) + 1, Len(s))

\* the row at position i has the timestamp column and build_new_row
\* transforms it without an error
Transforms(i) ==
    /\ HeaderIndex # None
    /\ HeaderIndex < Len(data_rows[i + 1])
    /\ Transformed(i).exc = NoExc

\* the row at position i has a well-formed timestamp: one space between a
\* date that parses and a time
WellFormed(i) ==
    /\ HeaderIndex # None
    /\ HeaderIndex < Len(data_rows[i + 1])
    /\ LET ts == data_rows[i + 1][HeaderIndex + 1]
       IN  /\ CountOf(ts, " ") = 1
           /\ build_new_date_format1(Before(ts, " ")).exc = NoExc

AllWellFormed == \A i \in Positions : WellFormed(i)

\* a finite set of positions as the sequence of its elements in input order
RECURSIVE InOrder(_)
InOrder(S) ==
    IF S = {} THEN <<>>
    ELSE LET m == CHOOSE x \in S : \A y \in S : x <= y
         IN  <<m>> \o InOrder(S \ {m})

\* the header followed by the transformed rows of the positions in S, in order
HeaderThenTransformed(S) ==
    <<input_file[1]>> \o [j \in 1..Cardinality(S) |-> Transformed(InOrder(S)[j]).val]

\* the header followed by the input rows of the positions in S, as they are
HeaderThenUnchanged(S) ==
    <<input_file[1]>> \o [j \in 1..Cardinality(S) |-> data_rows[InOrder(S)[j] + 1]]

NonMultiples(n) == {i \in Positions : i % n # 0}

\* the positions the stride keeps whose transformation raises
FailingRows ==
    {i \in Positions : /\ skip_every_nth_row > 1
                       /\ i % skip_every_nth_row # 0
                       /\ Transformed(i).exc # NoExc}

FirstFailing == CHOOSE k \in FailingRows : \A j \in FailingRows : k <= j

UnpackErrors == {"ValueError: not enough values to unpack",
                 "ValueError: too many values to unpack"}

(***************************************************************************)
(* C1.  With stride <= 1 and well-formed data rows, the output is the      *)
(* header followed by one transformed row per input data row, in input     *)
(* order.  (The data loop writes a row only under stride > 1: with         *)
(* stride <= 1 the output is the header alone.)                            *)
(***************************************************************************)
C1_StrideAtMostOneEmitsEveryRow ==
    (Converted /\ skip_every_nth_row <= 1 /\ AllWellFormed)
        => /\ result = "True"
           /\ output = HeaderThenTransformed(Positions)

(***************************************************************************)
(* C2.  With stride N > 1 and well-formed data rows, the emitted data rows *)
(* are exactly the transformed rows of the positions i with i mod N # 0,   *)
(* in input order; for N = 3, exactly 2 of any 3 consecutive data rows     *)
(* are emitted.  (Checked for every input whose rows transform without an  *)
(* error, the well-formed ones among them.)                                *)
(***************************************************************************)
C2_StrideKeepsNonMultiples ==
    (Converted /\ skip_every_nth_row > 1 /\ \A i \in Positions : Transforms(i))
        => /\ result = "True"
           /\ emitted = NonMultiples(skip_every_nth_row)
           /\ output = HeaderThenTransformed(NonMultiples(skip_every_nth_row))
           /\ skip_every_nth_row = 3 =>
                \A a \in Positions :
                    a + 2 \in Positions
                        => Cardinality(emitted \cap a..(a + 2)) = 2

C2_Witness ==
    /\ Converted
    /\ result = "True"
    /\ skip_every_nth_row = 3
    /\ Len(data_rows) = 3
    /\ AllWellFormed
    /\ emitted = {1, 2}
    /\ Len(output) = 3

(***************************************************************************)
(* C3.  Whenever process_torque_csv_log has returned, no file handle it    *)
(* opened is still open.  (The close() calls are on the success path       *)
(* only.)                                                                  *)
(***************************************************************************)
C3_HandlesReleasedOnReturn ==
    pc = "returned" => csv_input_file # "open" /\ csv_output_file # "open"

(***************************************************************************)
(* C4.  The conversion returns True exactly when no error occurred and     *)
(* False otherwise; when the transformation of the row at position k is    *)
(* the first to raise, the output holds the header and the transformed     *)
(* kept rows of the positions below k, and no row at a position >= k is    *)
(* written at any time.                                                    *)
(***************************************************************************)
C4_ErrorGivesFalseAndNoRollback ==
    /\ pc = "returned" =>
         /\ result \in {"True", "False"}
         /\ result = "True" <=> exc = NoExc
         /\ result = "True" <=> /\ input_exists
                                /\ output_writable
                                /\ HasHeader
                                /\ FailingRows = {}
    /\ pc # "returned" => result = "unset"
    /\ (HasHeader /\ FailingRows # {}) =>
         /\ \A i \in emitted : i < FirstFailing
         /\ index <= FirstFailing
         /\ Converted =>
              /\ result = "False"
              /\ output = HeaderThenTransformed(
                              {i \in NonMultiples(skip_every_nth_row) :
                                   i < FirstFailing})

C4_Witness ==
    /\ Converted
    /\ result = "False"
    /\ FailingRows # {}
    /\ FirstFailing = 2
    /\ emitted = {1}
    /\ Len(output) = 2
    /\ Len(data_rows) = 3

(***************************************************************************)
(* C5.  When no header name contains "time", the conversion runs to        *)
(* completion and every data row it emits equals the input row of its      *)
(* position, for every stride.  (build_new_row asserts that the index is   *)
(* an int: the first kept row raises AssertionError.)                      *)
(***************************************************************************)
C5_NoTimeColumnRowsUnchanged ==
    (Converted /\ HeaderIndex = None)
        => /\ result = "True"
           /\ output = HeaderThenUnchanged(emitted)

(***************************************************************************)
(* C6.  Once both files are open and the header is read, the first row of  *)
(* the output is the input's header row, unchanged, written before any     *)
(* data row, in every later state and whatever the stride, the flag and    *)
(* the outcome.                                                            *)
(***************************************************************************)
C6_HeaderPassedThroughFirst ==
    /\ output # <<>> => HasHeader /\ output[1] = input_file[1]
    /\ (BothOpened /\ HasHeader /\ pc \in {"loop", "except", "returned"})
           => /\ Len(output) = 1 + Cardinality(emitted)
              /\ output[1] = input_file[1]
    /\ pc \in {"main", "open_in", "open_out", "header"} => output = <<>>

C6_Witness ==
    /\ Converted
    /\ result = "False"
    /\ skip_every_nth_row = 3
    /\ ~discard_date
    /\ Len(output) = 2
    /\ output[1] = input_file[1]
    /\ output[2] # input_file[1]

(***************************************************************************)
(* C7.  build_new_row with an index at or past the end of the row raises   *)
(* IndexError.  (It raises nothing.)                                       *)
(***************************************************************************)
OutOfBoundsCall ==
    /\ call.fn = "build_new_row"
    /\ call.done
    /\ call.idx # None
    /\ call.idx >= Len(call.row)

C7_OutOfBoundsRaisesIndexError ==
    OutOfBoundsCall => call.ret.exc = "IndexError"

\* C7, amended.  build_new_row with an index at or past the end of the row
\* raises nothing and returns the fields of the row, all unchanged.
C7_OutOfBoundsReturnsRowUnchanged ==
    OutOfBoundsCall => call.ret = Ok(call.row)

C7_Witness ==
    /\ OutOfBoundsCall
    /\ Len(call.row) = 2
    /\ call.idx = 2
    /\ call.row[1] = TS_full
    /\ call.ret.exc = NoExc
    /\ call.ret.val = call.row

InBoundsCall ==
    /\ call.fn = "build_new_row"
    /\ call.done
    /\ call.idx # None
    /\ call.idx < Len(call.row)
    /\ build_new_datetime_format1(call.row[call.idx + 1], call.dd).exc = NoExc

C9_ReplacesOnlyTheTimestamp ==
    /\ [](InBoundsCall =>
            /\ call.ret.exc = NoExc
            /\ Len(call.ret.val) = Len(call.row)
            /\ call.ret.val[call.idx + 1] =
                 build_new_datetime_format1(call.row[call.idx + 1], call.dd).val
            /\ \A i \in 1..Len(call.row) :
                   i # call.idx + 1 => call.ret.val[i] = call.row[i])
    /\ [][call'.row = call.row]_vars

C9_Witness ==
    /\ InBoundsCall
    /\ Len(call.row) = 3
    /\ call.idx = 1
    /\ ~call.dd
    /\ call.row = <<F_50, TS_full, TS_two>>
    /\ call.ret.val = <<F_50, <<"2","0","2","1","-","0","2","-","2","2">>
                                  \o T_sp \o T_time, TS_two>>

(***************************************************************************)
(* C10.  build_new_datetime_format1 splits on the first space only: it     *)
(* fails for the separator exactly when the input has no space, and with   *)
(* one or more spaces the date part is the text before the first space     *)
(* and the time part all the text after it.  (It splits at every space     *)
(* and unpacks exactly two parts.)                                         *)
(***************************************************************************)
DatetimeCall == call.fn = "build_new_datetime_format1" /\ call.done

\* what the call returns when its date part is d and its time part is t
FromParts(d, t, dd) ==
    IF dd THEN Ok(Before(t, "."))
    ELSE IF build_new_date_format1(d).exc # NoExc
         THEN build_new_date_format1(d)
         ELSE Ok(build_new_date_format1(d).val \o <<" ">> \o Before(t, "."))

C10_SplitsOnFirstSpaceOnly ==
    DatetimeCall =>
        /\ call.ret.exc \in UnpackErrors <=> CountOf(call.s, " ") = 0
        /\ CountOf(call.s, " ") >= 1 =>
             call.ret = FromParts(Before(call.s, " "), After(call.s, " "), call.dd)

\* C10, amended.  build_new_datetime_format1 splits at every space and
\* needs exactly two parts: it fails with "not enough values to unpack"
\* exactly when the input has no space and with "too many values to unpack"
\* exactly when it has two or more; with exactly one space the date part is
\* the text before it and the time part the text after it.
C10_SplitsOnEverySpace ==
    DatetimeCall =>
        /\ call.ret.exc = "ValueError: not enough values to unpack"
               <=> CountOf(call.s, " ") = 0
        /\ call.ret.exc = "ValueError: too many values to unpack"
               <=> CountOf(call.s, " ") >= 2
        /\ CountOf(call.s, " ") = 1 =>
             call.ret = FromParts(Before(call.s, " "), After(call.s, " "), call.dd)

C10_Witness ==
    /\ DatetimeCall
    /\ call.s = TS_two
    /\ call.ret.exc = "ValueError: too many values to unpack"

====
